---- MODULE Spec2Model ----
(***************************************************************************)
(* Token acquisition and the process-wide token cache of server.Server     *)
(* (src/server/server.go).  Every caller owns one Server; all Servers of   *)
(* the process share the environment-variable cache.  A caller's step is   *)
(* the code between two blocking round trips, or one access to the cache   *)
(* when the code makes several in a row.                                   *)
(***************************************************************************)
EXTENDS Integers, Sequences, FiniteSets, TLC

\* ------------------------------------------------------------------ bounds
MaxTime == 1
MaxGrants == 2
MaxCalls == 2
MaxFields == 2

Procs == {"p1", "p2"}

\* ------------------------------------------------------- text as characters
\* A Go string is a sequence of one-character strings.

Digits == <<"0", "1", "2", "3", "4", "5", "6", "7", "8", "9">>

IsDigit(c) == \E d \in 1..10 : Digits[d] = c

DigitVal(c) == (CHOOSE d \in 1..10 : Digits[d] = c) - 1

RECURSIVE Itoa(_)
\* strconv-style decimal text of a non-negative integer, as json.Marshal writes it
Itoa(n) == IF n < 10 THEN <<Digits[n + 1]>> ELSE Itoa(n \div 10) \o <<Digits[(n % 10) + 1]>>

FormatInt(n) == IF n < 0 THEN <<"-">> \o Itoa(0 - n) ELSE Itoa(n)

RECURSIVE Flatten(_)
Flatten(ss) == IF ss = <<>> THEN <<>> ELSE Head(ss) \o Flatten(Tail(ss))

\* url.QueryEscape: unreserved characters stay, a space becomes "+", every
\* other byte becomes %XX.
QueryEscapeChar(c) ==
  CASE c = ":" -> <<"%", "3", "A">>
    [] c = "/" -> <<"%", "2", "F">>
    [] c = " " -> <<"+">>
    [] c = "%" -> <<"%", "2", "5">>
    [] OTHER -> <<c>>

QueryEscape(s) == Flatten([i \in 1..Len(s) |-> QueryEscapeChar(s[i])])

\* ----------------------------------------------------------- configuration
cloudBaseURLTemplate(tenant, tld) ==
  <<"h", ":", "/", "/">> \o tenant \o <<".", "c", ".">> \o tld \o <<"/">>

defaultTLD == <<"c", "o", "m">>

UrlServer == <<"h", ":", "/", "/", "s">>
UrlVaultA == <<"h", ":", "/", "/", "a", "/">>
UrlVaultB == <<"h", ":", "/", "/", "b">>
TenantT == <<"t">>
StaticToken == <<"s", "t">>

\* Server.Configuration after New: exactly one of ServerURL and Tenant is set.
ConfigServer ==
  [ServerURL |-> UrlServer, Tenant |-> <<>>, TLD |-> defaultTLD, Token |-> <<>>,
   Username |-> "alice"]

\* a second user of the same server
ConfigServerBob ==
  [ServerURL |-> UrlServer, Tenant |-> <<>>, TLD |-> defaultTLD, Token |-> <<>>,
   Username |-> "bob"]

ConfigStatic ==
  [ServerURL |-> UrlServer, Tenant |-> <<>>, TLD |-> defaultTLD, Token |-> StaticToken,
   Username |-> "alice"]

ConfigCloud ==
  [ServerURL |-> <<>>, Tenant |-> TenantT, TLD |-> defaultTLD, Token |-> <<>>,
   Username |-> "bob"]

Configurations == {ConfigServer, ConfigServerBob, ConfigStatic, ConfigCloud}

\* the Servers the callers are given: two Servers of one backend, a Server
\* with a static token next to one of an own server or of a cloud tenant
Deployments ==
  { [p1 |-> ConfigServer, p2 |-> ConfigServer],
    [p1 |-> ConfigServer, p2 |-> ConfigStatic],
    [p1 |-> ConfigCloud, p2 |-> ConfigStatic] }

\* the baseURL computation shared by urlFor, clearTokenCache and getAccessToken
BaseURLOf(s) ==
  IF s.ServerURL = <<>> THEN cloudBaseURLTemplate(s.Tenant, s.TLD) ELSE s.ServerURL

BaseURLs ==
  {BaseURLOf(c) : c \in Configurations} \cup {UrlVaultA, UrlVaultB}

\* the name of the environment variable that caches the token of baseURL
CacheKey(baseURL) == <<"S", "S", "_", "A", "T", "_">> \o QueryEscape(baseURL)

CacheKeys == {CacheKey(u) : u \in BaseURLs}

\* ------------------------------------------------ the cached value as JSON
\* TokenCache{AccessToken, ExpiresIn} is stored as the text
\* {"access_token":"...","expires_in":N}; the two member names are one
\* lexeme each, everything else is a character.
KeyAccessToken == "\"access_token\":"
KeyExpiresIn == "\"expires_in\":"

\* a backslash written as it is
JSONEscapeCharQuoteOnly(c) == IF c = "\"" THEN <<"\\", "\"">> ELSE <<c>>

\* encoding/json string escaping of the characters tokens are made of
JSONEscapeChar(c) ==
  CASE c = "\"" -> <<"\\", "\"">>
    [] c = "\\" -> <<"\\", "\\">>
    [] OTHER -> <<c>>

JSONQuote(s) ==
  <<"\"">> \o Flatten([i \in 1..Len(s) |-> JSONEscapeChar(s[i])]) \o <<"\"">>

\* json.Marshal(cache)
MarshalTokenCache(cache) ==
  <<"{", KeyAccessToken>> \o JSONQuote(cache.AccessToken)
    \o <<",", KeyExpiresIn>> \o FormatInt(cache.ExpiresIn) \o <<"}">>

ZeroTokenCache == [AccessToken |-> <<>>, ExpiresIn |-> 0]

RECURSIVE ScanString(_, _, _)
\* the string literal whose opening quote is before position i
ScanString(data, i, acc) ==
  IF i > Len(data) THEN [ok |-> FALSE, val |-> <<>>, next |-> i]
  ELSE IF data[i] = "\"" THEN [ok |-> TRUE, val |-> acc, next |-> i + 1]
  ELSE IF data[i] = "\\"
    THEN IF i + 1 <= Len(data) /\ data[i + 1] \in {"\"", "\\"}
           THEN ScanString(data, i + 2, Append(acc, data[i + 1]))
           ELSE [ok |-> FALSE, val |-> <<>>, next |-> i]
  ELSE ScanString(data, i + 1, Append(acc, data[i]))

RECURSIVE ScanDigits(_, _, _, _)
ScanDigits(data, i, acc, seen) ==
  IF i <= Len(data) /\ IsDigit(data[i])
    THEN ScanDigits(data, i + 1, (acc * 10) + DigitVal(data[i]), TRUE)
    ELSE [ok |-> seen, val |-> acc, next |-> i]

ScanInt(data, i) ==
  IF i <= Len(data) /\ data[i] = "-"
    THEN LET n == ScanDigits(data, i + 1, 0, FALSE)
         IN [ok |-> n.ok, val |-> 0 - n.val, next |-> n.next]
    ELSE ScanDigits(data, i, 0, FALSE)

\* json.Unmarshal([]byte(data), &cache): the empty text is a syntax error
UnmarshalTokenCache(data) ==
  LET bad == [err |-> TRUE, cache |-> ZeroTokenCache]
  IN IF Len(data) < 3 \/ data[1] # "{" \/ data[2] # KeyAccessToken \/ data[3] # "\""
       THEN bad
       ELSE LET s == ScanString(data, 4, <<>>)
            IN IF ~s.ok \/ s.next + 1 > Len(data) \/ data[s.next] # ","
                    \/ data[s.next + 1] # KeyExpiresIn
                 THEN bad
                 ELSE LET n == ScanInt(data, s.next + 2)
                      IN IF ~n.ok \/ n.next # Len(data) \/ data[n.next] # "}"
                           THEN bad
                           ELSE [err |-> FALSE,
                                 cache |-> [AccessToken |-> s.val, ExpiresIn |-> n.val]]

\* ------------------------------------------------------------ token cache
\* The environment holds, per variable name, whether it is set and its text.
Unset == [ok |-> FALSE, val |-> <<>>]

\* math.Floor(float64(expiresIn) * 0.9); exact for the magnitudes of a token
\* lifetime, \div rounding down like Floor
FloorNineTenths(expiresIn) == (expiresIn * 9) \div 10

\* cache.ExpiresIn of setCacheAccessToken
ExpiresAt(unixNow, expiresIn) == (unixNow + expiresIn) - FloorNineTenths(expiresIn)

setCacheAccessToken(e, unixNow, value, expiresIn, baseURL) ==
  [e EXCEPT ![CacheKey(baseURL)] =
     [ok |-> TRUE,
      val |-> MarshalTokenCache([AccessToken |-> value,
                                 ExpiresIn |-> ExpiresAt(unixNow, expiresIn)])]]

\* a clear that leaves the variable as it is
clearTokenCacheKeeps(e, s) == e

clearTokenCache(e, s) ==
  [e EXCEPT ![CacheKey(BaseURLOf(s))] = [ok |-> TRUE, val |-> <<>>]]

\* the expiry second itself taken as still valid
NotExpiredInclusive(unixNow, cache) == unixNow <= cache.ExpiresIn

\* time.Now().Unix() < int64(cache.ExpiresIn)
NotExpired(unixNow, cache) == unixNow < cache.ExpiresIn

\* getCacheAccessToken up to its return value; clear tells that the variable
\* was unset, in which case the code calls clearTokenCache before returning
getCacheAccessToken(e, unixNow, baseURL) ==
  LET entry == e[CacheKey(baseURL)]
      miss == [token |-> <<>>, found |-> FALSE, clear |-> FALSE]
  IN IF ~entry.ok THEN [miss EXCEPT !.clear = TRUE]
     ELSE LET u == UnmarshalTokenCache(entry.val)
          IN IF u.err THEN miss
             ELSE IF NotExpired(unixNow, u.cache)
               THEN [token |-> u.cache.AccessToken, found |-> TRUE, clear |-> FALSE]
               ELSE miss

\* ------------------------------------------------------ HTTP round trips
\* A round trip ends in a transport error or in a status and a body.
NoBody == [isObject |-> FALSE, words |-> <<>>]

NetErr == [neterr |-> TRUE, status |-> 0, body |-> NoBody]

Http(status, body) == [neterr |-> FALSE, status |-> status, body |-> body]

\* handleResponse: the body of a 2xx response, an error otherwise
handleResponse(res) ==
  IF res.neterr THEN [data |-> NoBody, status |-> 0, err |-> TRUE]
  ELSE IF res.status > 199 /\ res.status < 300
    THEN [data |-> res.body, status |-> res.status, err |-> FALSE]
    ELSE [data |-> NoBody, status |-> res.status, err |-> TRUE]

\* Bodies a health endpoint may answer with.  A body is an object with
\* members, or some other text; words are the words a substring search sees.
\* The value of the member healthy is kept as its JSON lexeme.
HealthBodies ==
  { [isObject |-> TRUE, members |-> [healthy |-> "true"], words |-> <<"healthy", "true">>],
    [isObject |-> TRUE, members |-> [healthy |-> "false"],
     words |-> <<"healthy", "false", "Healthy">>],
    [isObject |-> TRUE, members |-> [status |-> "up"], words |-> <<"status", "Healthy">>],
    [isObject |-> FALSE, members |-> [none |-> FALSE], words |-> <<"Healthy">>],
    [isObject |-> FALSE, members |-> [none |-> FALSE], words |-> <<"healthy">>] }

\* a body that says healthy and whose io.ReadAll fails
UnreadableBody ==
  [isObject |-> TRUE, members |-> [healthy |-> "true"],
   words |-> <<"healthy", "true", "Healthy">>, readErr |-> TRUE]

\* io.ReadAll(response.Body) returns an error
ReadErr(body) == "readErr" \in DOMAIN body /\ body.readErr

HealthResponses ==
  {NetErr} \cup {Http(200, b) : b \in HealthBodies \cup {UnreadableBody}}

\* any spelling of the word taken for the mark
ContainsHealthyAnyCase(body) ==
  \E i \in 1..Len(body.words) : body.words[i] \in {"Healthy", "healthy"}

\* strings.Contains(string(body), "Healthy")
ContainsHealthy(body) == \E i \in 1..Len(body.words) : body.words[i] = "Healthy"

\* json.Unmarshal(body, &jsonResponse) for the health Response struct: a body
\* that is no object is an error, and so is a member healthy that is neither
\* a boolean nor null; Healthy is true for the lexeme true only
UnmarshalResponse(body) ==
  LET lex == IF body.isObject /\ "healthy" \in DOMAIN body.members
               THEN body.members.healthy ELSE "null"
  IN [err |-> ~body.isObject \/ lex \notin {"true", "false", "null"},
      Healthy |-> body.isObject /\ lex = "true"]

\* the error of io.ReadAll dropped
checkJSONResponseIgnoringReadErr(res) ==
  IF res.neterr THEN FALSE
  ELSE LET j == UnmarshalResponse(res.body)
       IN IF ~j.err THEN j.Healthy ELSE ContainsHealthy(res.body)

checkJSONResponse(res) ==
  IF res.neterr \/ ReadErr(res.body) THEN FALSE
  ELSE LET j == UnmarshalResponse(res.body)
       IN IF ~j.err THEN j.Healthy ELSE ContainsHealthy(res.body)

\* The n-th token a token endpoint issues; every second one needs escaping.
IssuedToken(n) ==
  IF n % 2 = 0 THEN <<"q", "\"", "\\">> \o Itoa(n) ELSE <<"t">> \o Itoa(n)

ExpiresInValues == {1, 100}

GrantBodies(n) ==
  { [isObject |-> TRUE, members |-> [access_token |-> IssuedToken(n), expires_in |-> x],
     words |-> <<>>] : x \in ExpiresInValues }

\* a grant body without the expected members
EmptyGrantBody ==
  [isObject |-> TRUE, members |-> [token_type |-> "bearer"], words |-> <<>>]

\* what a token endpoint may answer after having sent n grant bodies
GrantResponses(n) ==
  {NetErr, Http(400, NoBody), Http(200, NoBody)}
    \cup (IF n < MaxGrants
            THEN {Http(200, b) : b \in GrantBodies(n + 1) \cup {EmptyGrantBody}}
            ELSE {})

\* json.Unmarshal(data, &grant): absent members keep their zero value
UnmarshalGrant(body) ==
  [err |-> ~body.isObject,
   AccessToken |-> IF body.isObject /\ "access_token" \in DOMAIN body.members
                     THEN body.members.access_token ELSE <<>>,
   ExpiresIn |-> IF body.isObject /\ "expires_in" \in DOMAIN body.members
                   THEN body.members.expires_in ELSE 0]

Vault(isDefault, isActive, url) ==
  [IsDefault |-> isDefault, IsActive |-> isActive, Connection |-> [Url |-> url]]

VaultLists ==
  { <<>>,
    <<Vault(TRUE, TRUE, UrlVaultA), Vault(TRUE, TRUE, UrlVaultB)>>,
    <<Vault(FALSE, TRUE, UrlVaultB), Vault(TRUE, TRUE, UrlVaultA)>>,
    <<Vault(TRUE, FALSE, UrlVaultA), Vault(FALSE, FALSE, UrlVaultB)>>,
    <<Vault(TRUE, TRUE, <<>>), Vault(TRUE, TRUE, UrlVaultB)>> }

VaultResponses ==
  {NetErr, Http(500, NoBody), Http(200, NoBody)}
    \cup {Http(200, [isObject |-> TRUE, members |-> [vaults |-> l], words |-> <<>>]) :
            l \in VaultLists}

\* json.Unmarshal(data, &vaultJsonResponse)
UnmarshalVaults(body) ==
  [err |-> ~body.isObject,
   Vaults |-> IF body.isObject /\ "vaults" \in DOMAIN body.members
                THEN body.members.vaults ELSE <<>>]

\* the vault's being active not asked for
SelectVaultURLIgnoringActive(vaults) ==
  LET hits == {i \in 1..Len(vaults) : vaults[i].IsDefault}
  IN IF hits = {} THEN <<>>
     ELSE vaults[CHOOSE i \in hits : \A j \in hits : i <= j].Connection.Url

\* the loop over vaultJsonResponse.Vaults: the URL of the first default and
\* active vault, "" when there is none
SelectVaultURL(vaults) ==
  LET hits == {i \in 1..Len(vaults) : vaults[i].IsDefault /\ vaults[i].IsActive}
  IN IF hits = {} THEN <<>>
     ELSE vaults[CHOOSE i \in hits : \A j \in hits : i <= j].Connection.Url

ResourceResponses ==
  {NetErr, Http(200, NoBody), Http(401, NoBody), Http(403, NoBody)}

\* http.StatusUnauthorized or http.StatusForbidden
Unauthorized(status) == status = 401 \/ status = 403

Operations == {"accessResource", "searchResources", "uploadFile"}

\* whether the operation looks at the status of its response
ClearsOnUnauthorized(o) == o = "accessResource"

\* the static token honoured for cloud tenants only
HasStaticTokenTenantOnly(s) == s.Token # <<>> /\ s.ServerURL = <<>>

\* s.Credentials.Token != ""
HasStaticToken(s) == s.Token # <<>>

\* ------------------------------------------------------------------ state
VARIABLES
  srv,          \* the Server of each caller (its Configuration)
  pc,           \* where each caller is
  baseURL,      \* getAccessToken's local baseURL
  accessToken,  \* the local accessToken, then the token of the caller's request
  env,          \* the process environment: the token cache
  now,          \* time.Now().Unix()
  issued,       \* how many grant bodies the token endpoints have sent
  owner,        \* for each of them, the username of the grant request
  call,         \* what the caller's running getAccessToken call has done so far
  event,        \* what the latest step did, for the properties to look at
  trial,        \* the latest function applied on its own: its input and result
  ntPc,         \* where the RoundTrip of the NTLM authenticator is
  ntReq,        \* the request RoundTrip was given, as it stands
  ntCtx,        \* the negotiate message of the call's security context
  sspi,         \* the handles of the security package in RoundTrip's call
  wire,         \* the requests the underlying transport has seen in this call
  answers,      \* the answers of the underlying transport in this call
  ntRet,        \* what RoundTrip returned
  slot,         \* the token the reuse token source of a passwordAuth holds
  mu,           \* the goroutine that holds the mutex of the token source
  ppc,          \* where each goroutine's passwordAuth.RoundTrip is
  pcall,        \* what the goroutine's running RoundTrip has done so far
  pret,         \* what the goroutine's RoundTrip returned
  pclock,       \* time.Now() of the client's process, in seconds
  pissued       \* how many tokens the client's token endpoint has issued

\* the state of the Servers and of their cache
svars == <<srv, pc, baseURL, accessToken, env, now, issued, owner, call, event>>

\* the state the operations of a Server leave alone
nvars == <<ntPc, ntReq, ntCtx, sspi, wire, answers, ntRet>>

\* the state of a passwordAuth and of the goroutines that send through it
pvars == <<slot, mu, ppc, pcall, pret, pclock, pissued>>

rest == <<trial, nvars, pvars>>

vars == <<svars, rest>>

\* round trips sent (probes, grants, vaults) and cache accesses made (reads,
\* of which hits found a token, and writes)
NoCall ==
  [probes |-> 0, grants |-> 0, vaults |-> 0, reads |-> 0, hits |-> 0, writes |-> 0]

\* p: the caller that stepped.  gat: "returned" or "failed" when its
\* getAccessToken ended in the step, with err, or with token and the record
\* of the call.
\* get, set: the step looked the cache up, with found and token, or stored
\* token with expiresIn, under the key of baseURL.  resp: the step handled
\* the response with status to the request of operation op; baseURL is the
\* one clearTokenCache computes.  probe: the step handled the answer to the
\* "ss" (healthcheck.aspx) or "plat" (health) probe, which checkJSONResponse
\* took as healthy or not; ioerr when http.Get or io.ReadAll returned an error.
\* vaultURL: the step resolved the vault of this URL and pinned the Server.
NoEvent ==
  [p |-> "", gat |-> "", err |-> "", token |-> <<>>, call |-> NoCall,
   get |-> FALSE, found |-> FALSE, set |-> FALSE, expiresIn |-> 0,
   baseURL |-> <<>>, resp |-> FALSE, op |-> "", status |-> 0,
   probe |-> "", healthy |-> FALSE, ioerr |-> FALSE, vaultURL |-> <<>>]

\* what a step that handled the answer res to a probe reports
ProbeEvent(probe, res) ==
  [NoEvent EXCEPT !.probe = probe, !.healthy = checkJSONResponse(res),
                  !.ioerr = (res.neterr \/ ReadErr(res.body))]

NoTrial == [fn |-> ""]

\* no request given to RoundTrip yet
NoRequest == [method |-> "", path |-> <<>>, auth |-> <<>>, original |-> FALSE]

\* the underlying transport returned an error
NoAnswer == [neterr |-> TRUE, status |-> 0, found |-> FALSE, vals |-> <<>>, readErr |-> FALSE]

\* cred and secctx of the calls-th call of RoundTrip: "none" before they are
\* acquired, then "open", then "released"
NoSession == [calls |-> 0, cred |-> "none", secctx |-> "none"]

\* goroutines that send requests through one passwordAuth
Gs == {"g1", "g2"}

\* the nil *oauth2.Token
NoToken == [set |-> FALSE, AccessToken |-> <<>>, Expiry |-> 0]

\* passwordAuth.RoundTrip: the password grants sent, the answer to the last
\* one, the token p.tokenSource.Token() returned, how often the request was
\* handed to the underlying transport and its Authorization header then
NoPwCall ==
  [grants |-> 0, answer |-> [neterr |-> TRUE, status |-> 0, body |-> [isObject |-> FALSE, words |-> <<>>]],
   got |-> NoToken, sent |-> 0, auth |-> <<>>]

NoPwReturn == [kind |-> "none", from |-> "", err |-> <<>>, status |-> 0]

\* RoundTrip has not returned
NoReturn == [kind |-> "none", err |-> "", res |-> NoAnswer]

InitOf(deployments) ==
  /\ srv \in deployments
  /\ pc = [p \in Procs |-> "idle"]
  /\ baseURL = [p \in Procs |-> <<>>]
  /\ accessToken = [p \in Procs |-> <<>>]
  /\ env = [k \in CacheKeys |-> Unset]
  /\ now = 0
  /\ issued = 0
  /\ owner = <<>>
  /\ call = [p \in Procs |-> NoCall]
  /\ event = NoEvent
  /\ trial = NoTrial
  /\ ntPc = "idle"
  /\ ntReq = NoRequest
  /\ ntCtx = <<>>
  /\ sspi = NoSession
  /\ wire = <<>>
  /\ answers = <<>>
  /\ ntRet = NoReturn
  /\ slot = NoToken
  /\ mu = ""
  /\ ppc = [g \in Gs |-> "idle"]
  /\ pcall = [g \in Gs |-> NoPwCall]
  /\ pret = [g \in Gs |-> NoPwReturn]
  /\ pclock = 0
  /\ pissued = 0

\* getAccessToken returns token to the operation, which sends its request
GatReturns(p, token, c, ev) ==
  /\ pc' = [pc EXCEPT ![p] = "req"]
  /\ accessToken' = [accessToken EXCEPT ![p] = token]
  /\ baseURL' = [baseURL EXCEPT ![p] = <<>>]
  /\ call' = [call EXCEPT ![p] = NoCall]
  /\ event' = [ev EXCEPT !.p = p, !.gat = "returned", !.token = token, !.call = c]

\* getAccessToken returns err after the step reported in ev, and so does the
\* operation
GatFailsAfter(p, err, ev) ==
  /\ pc' = [pc EXCEPT ![p] = "idle"]
  /\ accessToken' = [accessToken EXCEPT ![p] = <<>>]
  /\ baseURL' = [baseURL EXCEPT ![p] = <<>>]
  /\ call' = [call EXCEPT ![p] = NoCall]
  /\ event' = [ev EXCEPT !.p = p, !.gat = "failed", !.err = err]

GatFails(p, err) == GatFailsAfter(p, err, NoEvent)

\* getAccessToken goes on to the round trip or cache access at label
GatGoes(p, label, token, c, ev) ==
  /\ pc' = [pc EXCEPT ![p] = label]
  /\ accessToken' = [accessToken EXCEPT ![p] = token]
  /\ baseURL' = baseURL
  /\ call' = [call EXCEPT ![p] = c]
  /\ event' = IF ev = NoEvent THEN NoEvent ELSE [ev EXCEPT !.p = p]

\* a Server pinned to a vault taken for a Secret Server without a probe
StartOpPinnedSkipsProbes(p) ==
  /\ pc[p] = "idle"
  /\ IF HasStaticToken(srv[p])
       THEN GatReturns(p, srv[p].Token, call[p], NoEvent)
       ELSE /\ pc' = [pc EXCEPT ![p] =
                        IF srv[p].ServerURL \in {UrlVaultA, UrlVaultB}
                          THEN "grantSS" ELSE "probeSS"]
            /\ baseURL' = [baseURL EXCEPT ![p] = BaseURLOf(srv[p])]
            /\ call' = [call EXCEPT ![p] =
                          IF srv[p].ServerURL \in {UrlVaultA, UrlVaultB}
                            THEN [NoCall EXCEPT !.grants = 1]
                            ELSE [NoCall EXCEPT !.probes = 1]]
            /\ event' = NoEvent
            /\ accessToken' = accessToken
  /\ UNCHANGED <<srv, env, now, issued, owner, rest>>

\* accessResource, searchResources and uploadFile up to their first round
\* trip: getAccessToken returns the static token at once and the request is
\* sent, or it computes baseURL and checkPlatformDetails sends the first
\* health probe
StartOp(p) ==
  /\ pc[p] = "idle"
  /\ IF HasStaticToken(srv[p])
       THEN GatReturns(p, srv[p].Token, call[p], NoEvent)
       ELSE /\ pc' = [pc EXCEPT ![p] = "probeSS"]
            /\ baseURL' = [baseURL EXCEPT ![p] = BaseURLOf(srv[p])]
            /\ call' = [call EXCEPT ![p].probes = 1]
            /\ event' = NoEvent
            /\ accessToken' = accessToken
  /\ UNCHANGED <<srv, env, now, issued, owner, rest>>

\* a lookup whose hit is not used: the grant request is sent all the same
LookupThenGrant(p, platform, ev0) ==
  LET g == getCacheAccessToken(env, now, baseURL[p])
      c == [call[p] EXCEPT !.reads = @ + 1, !.hits = IF g.found THEN @ + 1 ELSE @]
      ev == [ev0 EXCEPT !.get = TRUE, !.found = g.found, !.token = g.token,
                            !.baseURL = baseURL[p]]
  IN GatGoes(p, IF platform THEN "grantPlat" ELSE "grantSS", g.token,
             [c EXCEPT !.grants = @ + 1], ev)

\* The cache lookup of getAccessToken (platform = FALSE) or of
\* checkPlatformDetails (platform = TRUE), and what follows it up to the next
\* round trip or cache access: on a hit the token is returned, or the vault
\* listing is requested with it; on a miss the grant request is sent, after
\* clearTokenCache when the variable was unset.  ev0 reports what the step
\* did before the lookup.
Lookup(p, platform, ev0) ==
  LET g == getCacheAccessToken(env, now, baseURL[p])
      c == [call[p] EXCEPT !.reads = @ + 1, !.hits = IF g.found THEN @ + 1 ELSE @]
      ev == [ev0 EXCEPT !.get = TRUE, !.found = g.found, !.token = g.token,
                            !.baseURL = baseURL[p]]
  IN IF g.found
       THEN IF platform
              THEN GatGoes(p, "vaults", g.token, [c EXCEPT !.vaults = @ + 1], ev)
              ELSE GatReturns(p, g.token, c, ev)
       ELSE IF g.clear
              THEN GatGoes(p, IF platform THEN "clrPlat" ELSE "clrSS", g.token, c, ev)
              ELSE GatGoes(p, IF platform THEN "grantPlat" ELSE "grantSS", g.token,
                           [c EXCEPT !.grants = @ + 1], ev)

\* a healthy healthcheck.aspx taken for the platform
ProbeSSAsPlatform(p, res) ==
  /\ pc[p] = "probeSS"
  /\ IF checkJSONResponse(res)
       THEN Lookup(p, TRUE, ProbeEvent("ss", res))
       ELSE GatGoes(p, "probePlat", accessToken[p], [call[p] EXCEPT !.probes = @ + 1],
                    ProbeEvent("ss", res))
  /\ UNCHANGED <<srv, env, now, issued, owner, rest>>

\* The answer to the healthcheck.aspx probe.  Healthy: checkPlatformDetails
\* returns "" and getAccessToken looks the token up.  Otherwise the health
\* probe of the platform is sent.
ProbeSS(p, res) ==
  /\ pc[p] = "probeSS"
  /\ IF checkJSONResponse(res)
       THEN Lookup(p, FALSE, ProbeEvent("ss", res))
       ELSE GatGoes(p, "probePlat", accessToken[p], [call[p] EXCEPT !.probes = @ + 1],
                    ProbeEvent("ss", res))
  /\ UNCHANGED <<srv, env, now, issued, owner, rest>>

\* The answer to the health probe of the platform.  Healthy:
\* checkPlatformDetails looks the token up.  Otherwise it fails with
\* "invalid URL", and so do getAccessToken and the operation.
ProbePlat(p, res) ==
  /\ pc[p] = "probePlat"
  /\ IF checkJSONResponse(res)
       THEN Lookup(p, TRUE, ProbeEvent("plat", res))
       ELSE GatFailsAfter(p, "invalid URL", ProbeEvent("plat", res))
  /\ UNCHANGED <<srv, env, now, issued, owner, rest>>

\* clearTokenCache called by getCacheAccessToken for an unset variable; then
\* the grant request is sent
ClearInGet(p) ==
  /\ pc[p] \in {"clrSS", "clrPlat"}
  /\ env' = clearTokenCache(env, srv[p])
  /\ GatGoes(p, IF pc[p] = "clrPlat" THEN "grantPlat" ELSE "grantSS", accessToken[p],
             [call[p] EXCEPT !.writes = @ + 1, !.grants = @ + 1], NoEvent)
  /\ UNCHANGED <<srv, now, issued, owner, rest>>

\* The answer to a grant request: the password grant of getAccessToken
\* (platform = FALSE), which returns the token, or the client-credentials
\* grant of checkPlatformDetails, which goes on to list the vaults.
Grant(p, platform, res) ==
  LET h == handleResponse(res)
      grant == UnmarshalGrant(h.data)
      c == [call[p] EXCEPT !.writes = @ + 1]
      ev == [NoEvent EXCEPT !.set = TRUE, !.expiresIn = grant.ExpiresIn,
                            !.token = grant.AccessToken, !.baseURL = baseURL[p]]
  IN /\ pc[p] = (IF platform THEN "grantPlat" ELSE "grantSS")
     /\ issued' = IF res.body.isObject THEN issued + 1 ELSE issued
     /\ owner' = IF res.body.isObject THEN Append(owner, srv[p].Username) ELSE owner
     /\ IF h.err \/ grant.err
          THEN /\ GatFails(p, IF h.err THEN "token response" ELSE "grant parse")
               /\ env' = env
          ELSE /\ env' = setCacheAccessToken(env, now, grant.AccessToken, grant.ExpiresIn,
                                             baseURL[p])
               /\ IF platform
                    THEN GatGoes(p, "vaults", grant.AccessToken,
                                 [c EXCEPT !.vaults = @ + 1], ev)
                    ELSE GatReturns(p, grant.AccessToken, c, ev)
     /\ UNCHANGED <<srv, now, rest>>

\* The answer to the vault listing: the Server is pinned to the first default
\* and active vault and checkPlatformDetails returns the token, which
\* getAccessToken returns as it is.  An empty token is to getAccessToken the
\* "" of a healthy healthcheck.aspx: it looks the token up under its baseURL,
\* computed before the Server was pinned.
Vaults(p, res) ==
  LET h == handleResponse(res)
      v == UnmarshalVaults(h.data)
      vaultURL == SelectVaultURL(v.Vaults)
  IN /\ pc[p] = "vaults"
     /\ IF h.err \/ v.err \/ vaultURL = <<>>
          THEN /\ GatFails(p, IF h.err THEN "vaults response"
                              ELSE IF v.err THEN "vaults parse"
                              ELSE "no configured vault found")
               /\ srv' = srv
          ELSE /\ srv' = [srv EXCEPT ![p].ServerURL = vaultURL]
               /\ IF accessToken[p] = <<>>
                    THEN Lookup(p, FALSE, [NoEvent EXCEPT !.vaultURL = vaultURL])
                    ELSE GatReturns(p, accessToken[p], call[p],
                                    [NoEvent EXCEPT !.vaultURL = vaultURL])
     /\ UNCHANGED <<env, now, issued, owner, rest>>

\* The answer to the request of operation o, and the operation returns:
\* accessResource clears the cache on 401 and 403, searchResources and
\* uploadFile drop the status.  The three operations run the same code up to
\* here, so which one the caller is in is drawn with the response.
Respond(p, o, res) ==
  LET h == handleResponse(res)
  IN /\ pc[p] = "req"
     /\ env' = IF ClearsOnUnauthorized(o) /\ Unauthorized(h.status)
                 THEN clearTokenCache(env, srv[p]) ELSE env
     /\ pc' = [pc EXCEPT ![p] = "idle"]
     /\ accessToken' = [accessToken EXCEPT ![p] = <<>>]
     /\ event' = [NoEvent EXCEPT !.p = p, !.resp = TRUE, !.op = o, !.status = h.status,
                                 !.baseURL = BaseURLOf(srv[p])]
     /\ UNCHANGED <<srv, baseURL, now, issued, owner, call, rest>>

\* the clock advances by a second
Tick ==
  /\ now < MaxTime
  /\ now' = now + 1
  /\ event' = NoEvent
  /\ UNCHANGED <<srv, pc, baseURL, accessToken, env, issued, owner, call, rest>>

Next ==
  \/ \E p \in Procs : StartOp(p)
  \/ \E p \in Procs, res \in HealthResponses : ProbeSS(p, res)
  \/ \E p \in Procs, res \in HealthResponses : ProbePlat(p, res)
  \/ \E p \in Procs : ClearInGet(p)
  \/ \E p \in Procs, platform \in BOOLEAN, res \in GrantResponses(issued) :
       Grant(p, platform, res)
  \/ \E p \in Procs, res \in VaultResponses : Vaults(p, res)
  \/ \E p \in Procs, o \in Operations, res \in ResourceResponses : Respond(p, o, res)
  \/ Tick

Init == InitOf(Deployments)

Spec == Init /\ [][Next]_vars

\* two Servers of one backend, each with a user of its own
TwoUsers == {[p1 |-> ConfigServer, p2 |-> ConfigServerBob]}

InitTwoUsers == InitOf(TwoUsers)

SpecTwoUsers == InitTwoUsers /\ [][Next]_vars

\* a Server with a password next to a Server with a static token for the same
\* server: the two clear the same variable, and only the first looks it up
\* and stores in it
SpecSharedKey == InitOf({[p1 |-> ConfigServer, p2 |-> ConfigStatic]}) /\ [][Next]_vars

\* ------------------------------------------- functions applied on their own
\* checkJSONResponse and the vault selection of checkPlatformDetails, applied
\* to every answer of a bounded shape rather than to the few the callers of
\* Spec are given.
MaxVaults == 2

HealthLexemes == {"absent", "true", "false", "null", "\"up\""}

\* A health body: an object or not, the lexeme of its member healthy (or no
\* such member), with or without the word Healthy in its text, readable or not.
HealthBody(isObject, lex, mark, unreadable) ==
  [isObject |-> isObject,
   members |-> IF ~isObject THEN [none |-> "null"]
               ELSE IF lex = "absent" THEN [status |-> "up"] ELSE [healthy |-> lex],
   words |-> (IF lex = "absent" THEN <<"status">> ELSE <<"healthy", lex>>)
               \o (IF mark THEN <<"Healthy">> ELSE <<>>),
   readErr |-> unreadable]

AllHealthBodies ==
  {HealthBody(o, l, m, u) : o \in BOOLEAN, l \in HealthLexemes, m \in BOOLEAN, u \in BOOLEAN}

AllHealthResponses ==
  {NetErr} \cup {Http(st, b) : st \in {200, 503}, b \in AllHealthBodies}

AllVaults ==
  {Vault(d, a, u) : d \in BOOLEAN, a \in BOOLEAN, u \in {UrlVaultA, UrlVaultB, <<>>}}

AllVaultLists == UNION {[1..n -> AllVaults] : n \in 0..MaxVaults}

\* what checkPlatformDetails makes of the vaults listed: the URL the Server
\* is pinned to, or the error
ResolveVault(vaults) ==
  LET vaultURL == SelectVaultURL(vaults)
  IN [url |-> vaultURL,
      err |-> IF vaultURL # <<>> THEN "" ELSE "no configured vault found"]

defaultAPIPathURI == <<"/", "a", "p", "i", "/", "v", "1">>

defaultTokenPathURI == <<"/", "o", "a", "u", "t", "h", "2", "/", "t", "o", "k", "e", "n">>

RECURSIVE TrimSlash(_)
\* strings.Trim(s, "/")
TrimSlash(t) ==
  IF t = <<>> THEN t
  ELSE IF Head(t) = "/" THEN TrimSlash(Tail(t))
  ELSE IF t[Len(t)] = "/" THEN TrimSlash(SubSeq(t, 1, Len(t) - 1))
  ELSE t

\* The Configurations New may be given.  TLSClientConfig is a pointer: nil or
\* set.
NewConfigurations ==
  [ServerURL : {<<>>, UrlServer}, Tenant : {<<>>, TenantT},
   TLD : {<<>>, <<"e", "u">>},
   apiPathURI : {<<>>, <<"/", "x", "/">>},
   tokenPathURI : {<<>>, <<"t">>},
   TLSClientConfig : {"nil", "set"}]

\* The options New may be given: none, or WithHttpClient with a nil client,
\* with a client whose Transport is nil, is a *http.Transport, or is a
\* RoundTripper of another type.
ClientOptions ==
  {"no option", "nil client", "nil Transport", "*http.Transport", "other RoundTripper"}

\* server.httpClient.Transport after the options and the default client
TransportOf(opt) ==
  IF opt \in {"no option", "nil client", "nil Transport"} THEN "nil" ELSE opt

\* New(config, opts...): the error, the Server, or the panic of the type
\* assertion on a Transport that is no *http.Transport
New(config, opt) ==
  LET none == [Configuration |-> config, Transport |-> "nil", TLSClientConfig |-> "nil"]
      c == [config EXCEPT
              !.TLD = IF @ = <<>> THEN defaultTLD ELSE @,
              !.apiPathURI = TrimSlash(IF @ = <<>> THEN defaultAPIPathURI ELSE @),
              !.tokenPathURI = TrimSlash(IF @ = <<>> THEN defaultTokenPathURI ELSE @)]
  IN IF (config.ServerURL = <<>> /\ config.Tenant = <<>>)
          \/ (config.ServerURL # <<>> /\ config.Tenant # <<>>)
       THEN [kind |-> "err", server |-> none]
     ELSE IF config.TLSClientConfig = "nil"
       THEN [kind |-> "server",
             server |-> [Configuration |-> c, Transport |-> TransportOf(opt),
                         TLSClientConfig |-> "nil"]]
     ELSE IF TransportOf(opt) = "*http.Transport"
       THEN [kind |-> "server",
             server |-> [Configuration |-> c, Transport |-> TransportOf(opt),
                         TLSClientConfig |-> "set"]]
     ELSE [kind |-> "panic", server |-> none]

TryHealth(res) ==
  /\ trial' = [fn |-> "checkJSONResponse", res |-> res, healthy |-> checkJSONResponse(res)]
  /\ UNCHANGED <<svars, nvars, pvars>>

TryVaults(vaults) ==
  /\ trial' = [fn |-> "ResolveVault", vaults |-> vaults, out |-> ResolveVault(vaults)]
  /\ UNCHANGED <<svars, nvars, pvars>>

TryNew(config, opt) ==
  /\ trial' = [fn |-> "New", config |-> config, opt |-> opt, out |-> New(config, opt)]
  /\ UNCHANGED <<svars, nvars, pvars>>

NextPure ==
  \/ \E res \in AllHealthResponses : TryHealth(res)
  \/ \E vaults \in AllVaultLists : TryVaults(vaults)
  \/ \E config \in NewConfigurations, opt \in ClientOptions : TryNew(config, opt)

SpecPure == Init /\ [][NextPure]_vars

\* ------------------------------------------------ the NTLM authenticator
\* ntlmAuthenticator.RoundTrip (src/client/ntlm_auth_windows.go).  Header
\* values and base64 text are sequences of characters, messages of the
\* security context are sequences of bytes.

B64Alphabet ==
  <<"A", "B", "C", "D", "E", "F", "G", "H", "I", "J", "K", "L", "M", "N", "O", "P",
    "Q", "R", "S", "T", "U", "V", "W", "X", "Y", "Z", "a", "b", "c", "d", "e", "f",
    "g", "h", "i", "j", "k", "l", "m", "n", "o", "p", "q", "r", "s", "t", "u", "v",
    "w", "x", "y", "z", "0", "1", "2", "3", "4", "5", "6", "7", "8", "9", "+", "/">>

B64Char(n) == B64Alphabet[n + 1]

IsB64(c) == \E i \in 1..64 : B64Alphabet[i] = c

B64Index(c) == (CHOOSE i \in 1..64 : B64Alphabet[i] = c) - 1

RECURSIVE EncodeToString(_)
\* base64.StdEncoding.EncodeToString
EncodeToString(b) ==
  IF Len(b) = 0 THEN <<>>
  ELSE IF Len(b) = 1
    THEN <<B64Char(b[1] \div 4), B64Char((b[1] % 4) * 16), "=", "=">>
  ELSE IF Len(b) = 2
    THEN <<B64Char(b[1] \div 4), B64Char(((b[1] % 4) * 16) + (b[2] \div 16)),
           B64Char((b[2] % 16) * 4), "=">>
  ELSE <<B64Char(b[1] \div 4), B64Char(((b[1] % 4) * 16) + (b[2] \div 16)),
         B64Char(((b[2] % 16) * 4) + (b[3] \div 64)), B64Char(b[3] % 64)>>
         \o EncodeToString(SubSeq(b, 4, Len(b)))

RECURSIVE DecodeString(_)
\* base64.StdEncoding.DecodeString: quanta of four characters, padding in the
\* last one only
DecodeString(t) ==
  LET bad == [err |-> TRUE, bytes |-> <<>>]
  IN IF Len(t) = 0 THEN [err |-> FALSE, bytes |-> <<>>]
     ELSE IF Len(t) < 4 \/ ~IsB64(t[1]) \/ ~IsB64(t[2]) THEN bad
     ELSE LET i1 == B64Index(t[1])
              i2 == B64Index(t[2])
              b1 == (i1 * 4) + (i2 \div 16)
          IN IF t[3] = "="
               THEN IF t[4] = "=" /\ Len(t) = 4
                      THEN [err |-> FALSE, bytes |-> <<b1>>] ELSE bad
             ELSE IF ~IsB64(t[3]) THEN bad
             ELSE LET i3 == B64Index(t[3])
                      b2 == ((i2 % 16) * 16) + (i3 \div 4)
                  IN IF t[4] = "="
                       THEN IF Len(t) = 4
                              THEN [err |-> FALSE, bytes |-> <<b1, b2>>] ELSE bad
                     ELSE IF ~IsB64(t[4]) THEN bad
                     ELSE LET b3 == ((i3 % 4) * 64) + B64Index(t[4])
                              more == DecodeString(SubSeq(t, 5, Len(t)))
                          IN IF more.err THEN bad
                             ELSE [err |-> FALSE, bytes |-> <<b1, b2, b3>> \o more.bytes]

\* strings.HasPrefix
HasPrefix(t, prefix) ==
  Len(t) >= Len(prefix) /\ SubSeq(t, 1, Len(prefix)) = prefix

NTLM == <<"N", "T", "L", "M">>

NTLMSpace == NTLM \o <<" ">>

\* "NTLM "+base64.StdEncoding.EncodeToString(message)
NTLMHeader(message) == NTLMSpace \o EncodeToString(message)

\* A path is a sequence of pieces; no piece but "/api/v1" starts with a slash
\* followed by "api", so strings.HasPrefix(path, "/api/v1") looks at the head.
ApiPrefix == "/api/v1"

Paths ==
  { <<ApiPrefix, "/secrets">>, <<ApiPrefix, "0">>, <<ApiPrefix, "/secrets", "/">>,
    <<"/oauth2/token">> }

\* path.Clean of a path of these pieces: a trailing slash is dropped
Clean(path) ==
  IF Len(path) > 1 /\ path[Len(path)] = "/" THEN SubSeq(path, 1, Len(path) - 1) ELSE path

\* path.Join("/winauthwebservices", path)
JoinWinAuth(path) == <<"/winauthwebservices">> \o Clean(path)

\* the requests RoundTrip is given; one comes with an Authorization header
Requests ==
  {[method |-> m, path |-> q, auth |-> a, original |-> TRUE] :
     m \in {"GET", "POST"}, q \in Paths, a \in {<<>>, <<"B">>}}

\* http.NewRequest("GET", req.URL.String(), nil)
NewGet(req) == [method |-> "GET", path |-> req.path, auth |-> <<>>, original |-> FALSE]

\* the negotiate request sent without its Authorization header
NegotiateRequestUnauthenticated(req, negotiate) == NewGet(req)

\* the request of doNTLMNegotiate
NegotiateRequest(req, negotiate) ==
  [NewGet(req) EXCEPT !.auth = NTLMHeader(negotiate)]

\* the messages of the security context: the negotiate message of
\* NewClientContext, the challenges a server may send, and the authenticate
\* message secctx.Update makes of a challenge
NegotiateMessage == <<78, 1>>

Challenges == {<<2>>, <<200, 2, 77>>}

Update(challenge) == <<3>> \o challenge

\* what the security package may do when RoundTrip begins: fail to give the
\* credentials, fail to make the context, or give both
SSPIOutcomes == {"no credentials", "no context", "ok"}

\* An answer of the underlying transport: an error of RoundTrip, or a status
\* and the Www-Authenticate values (found: the header is there), with a body
\* that io.ReadAll reads or not.
Answer(status, found, vals, readErr) ==
  [neterr |-> FALSE, status |-> status, found |-> found, vals |-> vals,
   readErr |-> readErr]

WwwAuthenticates ==
  { <<>>, <<NTLM>>, <<<<"N", "e", "g", "o", "t", "i", "a", "t", "e">>, NTLM>>,
    <<<<"n", "t", "l", "m">>>>, <<NTLMSpace>>, <<<<"B", "a", "s", "i", "c">>>> }
    \cup {<<NTLMHeader(c)>> : c \in Challenges}
    \cup {<<NTLMHeader(c), NTLM>> : c \in Challenges}
    \cup { <<NTLMSpace \o <<"A">>>>, <<NTLMSpace \o <<"A", "g", "=">>>>,
           <<NTLM \o <<"-">> \o EncodeToString(<<2>>)>> }

Answers ==
  {NoAnswer}
    \cup {Answer(st, TRUE, v, FALSE) : st \in {401, 200}, v \in WwwAuthenticates}
    \cup {Answer(st, FALSE, <<>>, FALSE) : st \in {401, 200}}
    \cup {Answer(401, TRUE, <<NTLM>>, TRUE)}
    \cup {Answer(401, TRUE, <<NTLMHeader(c)>>, TRUE) : c \in Challenges}

\* the answers to the replayed request: RoundTrip does not read their body
FinalAnswers ==
  {NoAnswer} \cup {Answer(st, FALSE, <<>>, FALSE) : st \in {200, 401, 500}}

\* doReq: the error of the transport or of io.ReadAll
doReq(res) ==
  IF res.neterr THEN "transport" ELSE IF res.readErr THEN "read" ELSE ""

\* the status of the probe's answer not looked at
checkNTLMAnyStatus(res) ==
  IF doReq(res) # "" THEN doReq(res)
  ELSE IF ~res.found THEN "Www-Authenticate not found"
  ELSE IF \E i \in 1..Len(res.vals) : res.vals[i] = NTLM THEN ""
  ELSE "Www-Authenticate header does not contain NTLM"

\* checkNTLM on the answer to its request: the error, "" for nil
checkNTLM(res) ==
  IF doReq(res) # "" THEN doReq(res)
  ELSE IF res.status # 401 THEN "Unauthorized expected"
  ELSE IF ~res.found THEN "Www-Authenticate not found"
  ELSE IF \E i \in 1..Len(res.vals) : res.vals[i] = NTLM THEN ""
  ELSE "Www-Authenticate header does not contain NTLM"

\* the first Www-Authenticate value taken however many there are
doNTLMNegotiateFirstHeader(res) ==
  LET fail(e) == [err |-> e, challenge |-> <<>>]
  IN IF doReq(res) # "" THEN fail(doReq(res))
     ELSE IF res.status # 401 THEN fail("Unauthorized expected")
     ELSE IF ~res.found \/ Len(res.vals) = 0 THEN fail("Www-Authenticate not found")
     ELSE IF Len(res.vals[1]) < 6 THEN fail("Www-Authenticate header is to short")
     ELSE IF ~HasPrefix(res.vals[1], NTLMSpace)
       THEN fail("Www-Authenticate header is suppose to starts with NTLM")
     ELSE LET d == DecodeString(SubSeq(res.vals[1], 6, Len(res.vals[1])))
          IN IF d.err THEN fail("base64") ELSE [err |-> "", challenge |-> d.bytes]

\* doNTLMNegotiate on the answer to its request: the challenge or the error
doNTLMNegotiate(res) ==
  LET fail(e) == [err |-> e, challenge |-> <<>>]
  IN IF doReq(res) # "" THEN fail(doReq(res))
     ELSE IF res.status # 401 THEN fail("Unauthorized expected")
     ELSE IF ~res.found THEN fail("Www-Authenticate not found")
     ELSE IF Len(res.vals) # 1 THEN fail("Only one Www-Authenticate header expected")
     ELSE IF Len(res.vals[1]) < 6 THEN fail("Www-Authenticate header is to short")
     ELSE IF ~HasPrefix(res.vals[1], NTLMSpace)
       THEN fail("Www-Authenticate header is suppose to starts with NTLM")
     ELSE LET d == DecodeString(SubSeq(res.vals[1], 6, Len(res.vals[1])))
          IN IF d.err THEN fail("base64") ELSE [err |-> "", challenge |-> d.bytes]

ReturnErr(e) == [kind |-> "err", err |-> e, res |-> NoAnswer]

ReturnResponse(res) == [kind |-> "resp", err |-> "", res |-> res]

\* the security context left open when RoundTrip returns
ReleaseCredOnly(s) ==
  [s EXCEPT !.cred = IF @ = "open" THEN "released" ELSE @]

\* the deferred cred.Release() and secctx.Release(), run when RoundTrip returns
Release(s) ==
  [s EXCEPT !.cred = IF @ = "open" THEN "released" ELSE @,
            !.secctx = IF @ = "open" THEN "released" ELSE @]

\* RoundTrip returns err
NtFails(e) ==
  /\ ntPc' = "done"
  /\ ntRet' = ReturnErr(e)

\* RoundTrip(req) up to its first round trip: the path is rewritten, the
\* credentials and the security context are acquired, and checkNTLM sends
\* the probe.  o: what the security package does.
RoundTrip(req, o) ==
  LET r == IF Head(req.path) = ApiPrefix
             THEN [req EXCEPT !.path = JoinWinAuth(req.path)] ELSE req
      s0 == [calls |-> sspi.calls + 1, cred |-> "none", secctx |-> "none"]
  IN /\ ntPc \in {"idle", "done"}
     /\ sspi.calls < MaxCalls
     /\ ntReq' = r
     /\ answers' = <<>>
     /\ IF o # "ok"
          THEN /\ NtFails(o) /\ wire' = <<>> /\ ntCtx' = <<>>
               /\ sspi' = IF o = "no credentials" THEN s0
                          ELSE Release([s0 EXCEPT !.cred = "open"])
          ELSE /\ ntPc' = "probe"
               /\ ntCtx' = NegotiateMessage
               /\ sspi' = [s0 EXCEPT !.cred = "open", !.secctx = "open"]
               /\ wire' = <<NewGet(r)>>
               /\ ntRet' = NoReturn
     /\ UNCHANGED <<svars, trial, pvars>>

\* RoundTrip(req) of the build for the other systems: the panic unwinds the
\* caller.  The build of a process is fixed, so this is its first call, and
\* no call follows.
RoundTripOthers(req) ==
  /\ ntPc = "idle" /\ sspi.calls = 0
  /\ ntPc' = "panic"
  /\ ntReq' = req
  /\ UNCHANGED <<svars, trial, pvars, ntCtx, sspi, wire, answers, ntRet>>

\* the answer to the probe: checkNTLM returns, and doNTLMNegotiate sends the
\* negotiate request
ProbeAnswer(res) ==
  /\ ntPc = "probe"
  /\ answers' = Append(answers, res)
  /\ IF checkNTLM(res) # ""
       THEN NtFails(checkNTLM(res)) /\ wire' = wire /\ sspi' = Release(sspi)
       ELSE /\ ntPc' = "nego"
            /\ wire' = Append(wire, NegotiateRequest(ntReq, ntCtx))
            /\ ntRet' = ntRet /\ sspi' = sspi
  /\ UNCHANGED <<svars, trial, pvars, ntReq, ntCtx>>

\* the answer to the negotiate request: doNTLMNegotiate returns the
\* challenge, secctx.Update makes the authenticate message of it or fails
\* (updateErr), and the request RoundTrip was given is sent with the message
NegotiateAnswer(res, updateErr) ==
  LET n == doNTLMNegotiate(res)
      r == [ntReq EXCEPT !.auth = NTLMHeader(Update(n.challenge))]
  IN /\ ntPc = "nego"
     /\ answers' = Append(answers, res)
     /\ IF n.err # "" \/ updateErr
          THEN /\ NtFails(IF n.err # "" THEN n.err ELSE "secctx.Update")
               /\ wire' = wire /\ ntReq' = ntReq /\ sspi' = Release(sspi)
          ELSE /\ ntPc' = "replay"
               /\ ntReq' = r
               /\ wire' = Append(wire, r)
               /\ ntRet' = ntRet /\ sspi' = sspi
     /\ UNCHANGED <<svars, trial, pvars, ntCtx>>

\* the answer to the replayed request is what RoundTrip returns
ReplayAnswer(res) ==
  /\ ntPc = "replay"
  /\ answers' = Append(answers, res)
  /\ ntPc' = "done"
  /\ sspi' = Release(sspi)
  /\ ntRet' = IF res.neterr THEN ReturnErr("transport") ELSE ReturnResponse(res)
  /\ UNCHANGED <<svars, trial, pvars, ntReq, ntCtx, wire>>

NextNTLM ==
  \/ \E req \in Requests, o \in SSPIOutcomes : RoundTrip(req, o)
  \/ \E req \in Requests : RoundTripOthers(req)
  \/ \E res \in Answers : ProbeAnswer(res)
  \/ \E res \in Answers, updateErr \in BOOLEAN : NegotiateAnswer(res, updateErr)
  \/ \E res \in FinalAnswers : ReplayAnswer(res)

SpecNTLM == Init /\ [][NextNTLM]_vars


\* ------------------------------------------- the password-grant transport
\* passwordAuth of src/client/ntlm_auth.go: one token source, made by
\* oauth2.ReuseTokenSource(nil, passwordTs), shared by the goroutines that
\* send requests through the Client.  The base URL of the Client parses.

\* oauth2's defaultExpiryDelta, in seconds
expiryDelta == 10

\* the token source used without the reuse wrapper: no token is reused
ValidNever(t, unixNow) == FALSE

\* oauth2.Token.Valid, as the reuse token source asks it: a token, with an
\* access token, whose expiry less the delta is not before now
Valid(t, unixNow) ==
  t.set /\ t.AccessToken # <<>> /\ ~(t.Expiry - expiryDelta < unixNow)

PwExpiresIn == {0, 10, 11}

PwGrantBodies(n) ==
  { [isObject |-> TRUE, members |-> [access_token |-> IssuedToken(n), expires_in |-> x],
     words |-> <<>>] : x \in PwExpiresIn }

\* the body {"error":"invalid_grant"}
TokenErrorBody ==
  [isObject |-> TRUE, members |-> [error |-> "invalid_grant"], words |-> <<>>]

\* what the token endpoint may answer after having issued n tokens
TokenResponses(n) ==
  {NetErr, Http(200, UnreadableBody), Http(200, NoBody), Http(200, EmptyGrantBody),
   Http(400, TokenErrorBody), Http(400, NoBody), Http(500, EmptyGrantBody)}
    \cup (IF n < MaxGrants
            THEN {Http(st, b) : st \in {200, 201}, b \in PwGrantBodies(n + 1)}
            ELSE {})

\* json.Unmarshal(data, tErr) for tokenError
UnmarshalTokenError(body) ==
  [err |-> ~body.isObject,
   Error |-> IF body.isObject /\ "error" \in DOMAIN body.members
               THEN body.members.error ELSE ""]

\* a token taken from the body whatever the status
TokenAnyStatus(res, unixNow) ==
  LET fail(e) == [err |-> e, token |-> NoToken]
  IN IF res.neterr THEN fail(<<"transport">>)
     ELSE IF ReadErr(res.body) THEN fail(<<"read">>)
     ELSE LET grant == UnmarshalGrant(res.body)
          IN IF grant.err THEN fail(<<"unmarshal">>)
             ELSE [err |-> <<>>,
                   token |-> [set |-> TRUE, AccessToken |-> grant.AccessToken,
                              Expiry |-> unixNow + grant.ExpiresIn]]

\* passwordTokenSource.Token() on the answer to its POST: the error, <<>>
\* for nil, or the token
Token(res, unixNow) ==
  LET fail(e) == [err |-> e, token |-> NoToken]
  IN IF res.neterr THEN fail(<<"transport">>)
     ELSE IF ReadErr(res.body) THEN fail(<<"read">>)
     ELSE IF res.status # 200
       THEN LET tErr == UnmarshalTokenError(res.body)
            IN IF ~tErr.err THEN fail(<<"error getting token: ", tErr.Error>>)
               ELSE fail(<<"received non-200 response during token grant">>)
     ELSE LET grant == UnmarshalGrant(res.body)
          IN IF grant.err THEN fail(<<"unmarshal">>)
             ELSE [err |-> <<>>,
                   token |-> [set |-> TRUE, AccessToken |-> grant.AccessToken,
                              Expiry |-> unixNow + grant.ExpiresIn]]

\* the access token set as the header without its scheme
BearerHeaderBare(token) == token.AccessToken

\* "Bearer "+token.AccessToken
BearerHeader(token) == <<"B", "e", "a", "r", "e", "r", " ">> \o token.AccessToken

\* Token() of the reuse token source when the slot t holds no valid token,
\* on the answer to the grant: the error or the token, and the slot after
ReuseToken(t, unixNow, res) ==
  LET n == Token(res, unixNow)
  IN IF n.err # <<>> THEN [err |-> n.err, token |-> NoToken, slot |-> t]
     ELSE [err |-> <<>>, token |-> n.token, slot |-> n.token]

\* the password grant of getAccessToken on the answer to its POST: the
\* error or the token, and the cache after
passwordGrant(e, unixNow, url, res) ==
  LET h == handleResponse(res)
      grant == UnmarshalGrant(h.data)
  IN IF h.err \/ grant.err THEN [err |-> TRUE, token |-> <<>>, env |-> e]
     ELSE [err |-> FALSE, token |-> grant.AccessToken,
           env |-> setCacheAccessToken(e, unixNow, grant.AccessToken, grant.ExpiresIn, url)]

\* answers of a token endpoint, of any status, whose body can be read
AllTokenResponses ==
  {NetErr}
    \cup {Http(st, b) : st \in {200, 201, 204, 302, 400, 401, 500},
                        b \in PwGrantBodies(2) \cup {TokenErrorBody, EmptyGrantBody, NoBody}}

\* the token a slot may hold before the grant
PriorTokens ==
  {NoToken, [set |-> TRUE, AccessToken |-> IssuedToken(1), Expiry |-> 0]}

\* the cache before the grant: empty, or with the token of an earlier grant
PriorCaches ==
  { [k \in CacheKeys |-> Unset],
    setCacheAccessToken([k \in CacheKeys |-> Unset], 0, IssuedToken(1), 1, UrlServer) }

\* the two password grants applied to one answer
TryGrant(t, e, res) ==
  /\ trial' = [fn |-> "grant", res |-> res, slot |-> t, env |-> e,
               client |-> ReuseToken(t, 1, res),
               server |-> passwordGrant(e, 1, UrlServer, res)]
  /\ UNCHANGED <<svars, nvars, pvars>>

NextGrant == \E t \in PriorTokens, e \in PriorCaches, res \in AllTokenResponses : TryGrant(t, e, res)

SpecGrant == Init /\ [][NextGrant]_vars

PwResponses == {NetErr, Http(200, NoBody), Http(401, NoBody)}

\* RoundTrip(req) up to its first round trip.  Token() of the reuse token
\* source takes the mutex; with a valid token in the slot it returns it and
\* the request goes to the underlying transport, otherwise the goroutine
\* keeps the mutex while the password grant is in flight.
PwRoundTrip(g) ==
  /\ ppc[g] \in {"idle", "done"}
  /\ mu = ""
  /\ IF Valid(slot, pclock)
       THEN /\ ppc' = [ppc EXCEPT ![g] = "forward"]
            /\ pcall' = [pcall EXCEPT ![g] = [NoPwCall EXCEPT !.got = slot, !.sent = 1,
                                                              !.auth = BearerHeader(slot)]]
            /\ mu' = mu
       ELSE /\ ppc' = [ppc EXCEPT ![g] = "grant"]
            /\ pcall' = [pcall EXCEPT ![g] = [NoPwCall EXCEPT !.grants = 1]]
            /\ mu' = g
  /\ pret' = [pret EXCEPT ![g] = NoPwReturn]
  /\ UNCHANGED <<svars, trial, nvars, slot, pclock, pissued>>

\* the answer to the password grant: an error ends RoundTrip; a token goes
\* into the slot, the mutex is released, and the request goes to the
\* underlying transport with the token
PwGrantAnswer(g, res) ==
  LET t == Token(res, pclock)
  IN /\ ppc[g] = "grant"
     /\ mu' = ""
     /\ pissued' = IF res.body.isObject /\ "access_token" \in DOMAIN res.body.members
                     THEN pissued + 1 ELSE pissued
     /\ IF t.err # <<>>
          THEN /\ slot' = slot
               /\ ppc' = [ppc EXCEPT ![g] = "done"]
               /\ pcall' = [pcall EXCEPT ![g].answer = res]
               /\ pret' = [pret EXCEPT ![g] = [kind |-> "err", from |-> "token",
                                               err |-> t.err, status |-> 0]]
          ELSE /\ slot' = t.token
               /\ ppc' = [ppc EXCEPT ![g] = "forward"]
               /\ pcall' = [pcall EXCEPT ![g].answer = res, ![g].got = t.token,
                                         ![g].sent = @ + 1,
                                         ![g].auth = BearerHeader(t.token)]
               /\ pret' = pret
     /\ UNCHANGED <<svars, trial, nvars, pclock>>

\* the answer of the underlying transport is what RoundTrip returns
PwForwardAnswer(g, res) ==
  /\ ppc[g] = "forward"
  /\ ppc' = [ppc EXCEPT ![g] = "done"]
  /\ pret' = [pret EXCEPT ![g] =
                IF res.neterr
                  THEN [kind |-> "err", from |-> "transport", err |-> <<"transport">>,
                        status |-> 0]
                  ELSE [kind |-> "resp", from |-> "transport", err |-> <<>>,
                        status |-> res.status]]
  /\ UNCHANGED <<svars, trial, nvars, slot, mu, pcall, pclock, pissued>>

PwTick ==
  /\ pclock < MaxTime
  /\ pclock' = pclock + 1
  /\ UNCHANGED <<svars, trial, nvars, slot, mu, ppc, pcall, pret, pissued>>

NextPwd ==
  \/ \E g \in Gs : PwRoundTrip(g)
  \/ \E g \in Gs, res \in TokenResponses(pissued) : PwGrantAnswer(g, res)
  \/ \E g \in Gs, res \in PwResponses : PwForwardAnswer(g, res)
  \/ PwTick

SpecPwd == Init /\ [][NextPwd]_vars

\* ------------------------------------------------------- Client.Secret
\* Client.Secret and Client.doRequest (package client).  A secret is its list
\* of fields; the body of a field download is the text of the file.

SecretField(isFile, fileAttachmentID, filename, itemValue) ==
  [IsFile |-> isFile, FileAttachmentID |-> fileAttachmentID, Filename |-> filename,
   ItemValue |-> itemValue]

\* a file field with the dummy ItemValue of the secret response, a plain
\* field, a file field without an attachment and one without a file name
SecretFields ==
  { SecretField(TRUE, 7, <<"k">>, <<"*">>),
    SecretField(FALSE, 0, <<>>, <<"v">>),
    SecretField(TRUE, 0, <<"k">>, <<"*">>),
    SecretField(TRUE, 7, <<>>, <<"*">>) }

SecretBody(fields) ==
  [isObject |-> TRUE, members |-> [Items |-> fields], words |-> <<>>, text |-> <<>>]

FileBody(text) == [isObject |-> FALSE, words |-> <<>>, text |-> text]

UnreadableFile == [isObject |-> FALSE, words |-> <<>>, text |-> <<"f">>, readErr |-> TRUE]

SecretResponses ==
  {NetErr, Http(500, NoBody), Http(200, FileBody(<<"x">>))}
    \cup {Http(200, SecretBody(f)) : f \in UNION {[1..n -> SecretFields] : n \in 0..MaxFields}}

FieldResponses ==
  {NetErr, Http(404, NoBody), Http(200, UnreadableFile),
   Http(200, FileBody(<<>>)), Http(200, FileBody(<<"f", "1">>))}

\* the answers to the field downloads, by the index of the field
FieldAnswers == [1..MaxFields -> FieldResponses]

\* doRequest(ctx, GET, reqURL, nil, output) given the answer res to its
\* request.  output is the pointer the caller passed: its type and the value
\* it points to, which is val again after the call.  For a *string the code
\* assigns the body to its own parameter, so the caller's string is left as
\* it was; for any other type json.Unmarshal fills the value.
doRequest(res, output) ==
  IF res.neterr \/ res.status < 200 \/ res.status >= 300
    THEN [err |-> TRUE, val |-> output.val]
  ELSE IF output.type = "nil" THEN [err |-> FALSE, val |-> output.val]
  ELSE IF ReadErr(res.body) THEN [err |-> TRUE, val |-> output.val]
  ELSE IF output.type = "*string" THEN [err |-> FALSE, val |-> output.val]
  ELSE IF ~res.body.isObject THEN [err |-> TRUE, val |-> output.val]
  ELSE [err |-> FALSE,
        val |-> IF "Items" \in DOMAIN res.body.members
                  THEN res.body.members.Items ELSE output.val]

\* element.IsFile && element.FileAttachmentID != 0 && element.Filename != ""
IsAttachment(element) ==
  element.IsFile /\ element.FileAttachmentID # 0 /\ element.Filename # <<>>

RECURSIVE DownloadAttachments(_, _, _)
\* the loop of Secret over secret.Fields from index on
DownloadAttachments(fields, index, downloads) ==
  IF index > Len(fields) THEN [err |-> FALSE, Fields |-> fields]
  ELSE IF ~IsAttachment(fields[index])
    THEN DownloadAttachments(fields, index + 1, downloads)
  ELSE LET d == doRequest(downloads[index], [type |-> "*string", val |-> <<>>])
       IN IF d.err THEN [err |-> TRUE, Fields |-> <<>>]
          ELSE DownloadAttachments([fields EXCEPT ![index].ItemValue = d.val],
                                   index + 1, downloads)

\* Client.Secret(ctx, id) given the answer to the request for the secret and
\* the answers to the field downloads
Secret(res, downloads) ==
  LET r == doRequest(res, [type |-> "*Secret", val |-> <<>>])
  IN IF r.err THEN [err |-> TRUE, Fields |-> <<>>]
     ELSE DownloadAttachments(r.val, 1, downloads)

TrySecret(res, downloads) ==
  /\ trial' = [fn |-> "Secret", res |-> res, downloads |-> downloads,
               out |-> Secret(res, downloads)]
  /\ UNCHANGED <<svars, nvars, pvars>>

NextSecret == \E res \in SecretResponses, downloads \in FieldAnswers : TrySecret(res, downloads)

SpecSecret == Init /\ [][NextSecret]_vars

\* ------------------------------------------------------------ properties
GrantLabels == {"grantSS", "grantPlat"}

\* the entry of the cache for base URL u, decoded
Entry(u) == UnmarshalTokenCache(env[CacheKey(u)].val)

\* the cache holds a decodable entry for base URL u
HasEntry(u) == env[CacheKey(u)].ok /\ ~Entry(u).err

\* C1: a Server with a static token gets exactly that token from
\* getAccessToken, at once: it is never at a health probe, a grant, a vault
\* listing or a cache access, and its call has sent and touched nothing.
C1_StaticTokenBypass ==
  \A p \in Procs :
    srv[p].Token # <<>> =>
      /\ pc[p] \in {"idle", "req"}
      /\ call[p] = NoCall
      /\ pc[p] = "req" => accessToken[p] = srv[p].Token
      /\ event.p = p /\ event.gat # "" =>
           /\ event.gat = "returned"
           /\ event.token = srv[p].Token
           /\ event.call = NoCall
           /\ ~event.get /\ ~event.set

\* a static token returned while the cache holds a token of another Server
C1_Witness ==
  /\ event.gat = "returned"
  /\ srv[event.p].Token # <<>>
  /\ event.token = srv[event.p].Token
  /\ \E u \in BaseURLs : HasEntry(u)

\* C2: setCacheAccessToken at time issued_at stores
\* expires_at = issued_at + expiresIn - floor(expiresIn * 0.1).
C2_ExpiryMargin ==
  event.set =>
    /\ HasEntry(event.baseURL)
    /\ Entry(event.baseURL).cache.ExpiresIn =
         (now + event.expiresIn) - (event.expiresIn \div 10)

\* C3: no two grant requests for one backend identity are in flight at the
\* same time.
C3_SingleFlight ==
  \A p, q \in Procs :
    p # q /\ pc[p] \in GrantLabels /\ pc[q] \in GrantLabels => baseURL[p] # baseURL[q]

\* C4: the clear after a 401 or 403 to a request that carried a granted token
\* leaves the entry alone when it holds another token than that one.
C4_CompareAndClear ==
  [][\A p \in Procs :
       /\ pc[p] = "req" /\ srv[p].Token = <<>> /\ accessToken[p] # <<>>
       /\ event'.resp /\ event'.p = p /\ Unauthorized(event'.status)
       /\ HasEntry(event'.baseURL)
       /\ Entry(event'.baseURL).cache.AccessToken \notin {<<>>, accessToken[p]}
       => env'[CacheKey(event'.baseURL)] = env[CacheKey(event'.baseURL)]]_vars

\* C5: after a 401 or 403 to the request of any operation the cache holds no
\* token for the Server's backend identity.
C5_UnauthorizedClears ==
  event.resp /\ Unauthorized(event.status) =>
    ~getCacheAccessToken(env, now, event.baseURL).found

\* C6 as stated: a getAccessToken that finds a token in the cache has sent no
\* health probe, no grant request and no vault listing request.
C6_CacheFirst ==
  event.gat = "returned" /\ event.call.hits > 0 =>
    event.call.probes = 0 /\ event.call.grants = 0 /\ event.call.vaults = 0

\* C6 as amended: the health probes come before the lookup in every call; a
\* lookup that finds a non-expired, non-empty token sends no grant request:
\* the call returns the token, in Platform mode after the vault listing that
\* is requested with it, or fails at that listing.
C6_HitSendsNoGrant ==
  [][\A p \in Procs :
       /\ event'.get /\ event'.p = p => call[p].probes > 0
       /\ event'.get /\ event'.p = p /\ HasEntry(event'.baseURL)
            /\ now < Entry(event'.baseURL).cache.ExpiresIn
            /\ Entry(event'.baseURL).cache.AccessToken # <<>> =>
              /\ pc'[p] \in {"req", "vaults"}
              /\ accessToken'[p] = Entry(event'.baseURL).cache.AccessToken
              /\ pc'[p] = "req" => event'.call.grants = call[p].grants
              /\ pc'[p] = "vaults" => call'[p].grants = call[p].grants
       /\ pc[p] = "vaults" /\ accessToken[p] # <<>> /\ pc'[p] # "vaults" =>
              /\ pc'[p] \in {"idle", "req"}
              /\ pc'[p] = "req" =>
                   accessToken'[p] = accessToken[p] /\ event'.call.grants = call[p].grants]_vars

\* a call that found the token and sent no grant request returned it after
\* the vault listing
C6_Witness ==
  /\ event.gat = "returned"
  /\ event.call.hits > 0
  /\ event.call.grants = 0
  /\ event.call.vaults > 0
  /\ event.token # <<>>

\* C7: a lookup that returns a token found an entry that expires after now;
\* a lookup of an entry with now >= expires_at finds nothing.
C7_ReadImpliesFresh ==
  event.get =>
    /\ event.found =>
         /\ HasEntry(event.baseURL)
         /\ now < Entry(event.baseURL).cache.ExpiresIn
         /\ event.token = Entry(event.baseURL).cache.AccessToken
    /\ HasEntry(event.baseURL) /\ now >= Entry(event.baseURL).cache.ExpiresIn =>
         ~event.found

\* a token found after the clock has advanced
C7_Witness == event.get /\ event.found /\ now > 0 /\ event.token # <<>>

\* C8: after a lookup that found nothing, stale entry or none, the variable
\* holds no entry.
C8_StaleReadPurges ==
  event.get /\ ~event.found => env[CacheKey(event.baseURL)].val = <<>>

\* C9: right after setCacheAccessToken(token, expiresIn, key) with
\* expiresIn > 0, getCacheAccessToken(key) returns (token, true).
C9_SetThenGet ==
  event.set /\ event.expiresIn > 0 =>
    getCacheAccessToken(env, now, event.baseURL) =
      [token |-> event.token, found |-> TRUE, clear |-> FALSE]

\* a token that needs escaping has been stored
C9_Witness == event.set /\ event.expiresIn > 0 /\ event.token = IssuedToken(2)

\* C10: when a getAccessToken that sent a grant request returns token t, the
\* cache holds t under the key the Server's next getAccessToken looks up.
C10_GrantIsCachedForNextCall ==
  event.gat = "returned" /\ event.call.grants > 0 =>
    /\ HasEntry(BaseURLOf(srv[event.p]))
    /\ Entry(BaseURLOf(srv[event.p])).cache.AccessToken = event.token

\* C11: the mode follows from the probe answers alone.  healthcheck.aspx
\* healthy: the lookup of getAccessToken, then the token or the password
\* grant, and no health probe is sent.  healthcheck.aspx not healthy: the
\* health probe is sent; healthy, the lookup of checkPlatformDetails, then the
\* vault listing or the client-credentials grant; not healthy, the call fails
\* with "invalid URL".
C11_DetectionByProbes ==
  /\ event.probe = "ss" /\ event.healthy =>
       /\ event.get
       /\ pc[event.p] \in {"req", "clrSS", "grantSS"}
       /\ pc[event.p] = "req" => event.call.probes = 1
       /\ pc[event.p] # "req" => call[event.p].probes = 1
  /\ event.probe = "ss" /\ ~event.healthy =>
       pc[event.p] = "probePlat" /\ call[event.p].probes = 2 /\ ~event.get
  /\ event.probe = "plat" /\ event.healthy =>
       /\ event.get
       /\ pc[event.p] \in {"vaults", "clrPlat", "grantPlat"}
       /\ call[event.p].probes = 2
  /\ event.probe = "plat" /\ ~event.healthy =>
       /\ event.gat = "failed" /\ event.err = "invalid URL"
       /\ pc[event.p] = "idle"
  /\ \A p \in Procs :
       /\ pc[p] \in {"probePlat", "clrPlat", "grantPlat"} => call[p].probes = 2
       /\ pc[p] = "clrSS" => call[p].probes = 1
       /\ pc[p] = "grantSS" /\ call[p].vaults = 0 => call[p].probes = 1

\* the platform detected and the client-credentials grant sent
C11_Witness ==
  event.probe = "plat" /\ event.healthy /\ pc[event.p] = "grantPlat"

\* C12: a probe whose request or body read failed counts as not healthy and
\* its error is not what the caller gets: the healthcheck.aspx probe is
\* followed by the health probe, and the call that finds neither healthy
\* fails with "invalid URL", having sent no grant request and having neither
\* read nor written the cache.
C12_ProbeErrorsAreUnhealthy ==
  [][/\ event'.probe # "" /\ event'.ioerr =>
          /\ ~event'.healthy
          /\ event'.probe = "ss" => event'.gat = "" /\ pc'[event'.p] = "probePlat"
          /\ event'.probe = "plat" => event'.gat = "failed" /\ event'.err = "invalid URL"
     /\ event'.probe = "plat" /\ ~event'.healthy =>
          event'.gat = "failed" /\ event'.err = "invalid URL"
     /\ event'.gat = "failed" /\ event'.err = "invalid URL" =>
          /\ call[event'.p].probes = 2
          /\ call[event'.p].grants = 0
          /\ call[event'.p].reads = 0 /\ call[event'.p].writes = 0
          /\ env' = env /\ issued' = issued
          /\ pc'[event'.p] = "idle"]_vars

\* the call failed on a health probe that could not be read, while the cache
\* holds a token
C12_Witness ==
  /\ event.probe = "plat" /\ event.ioerr
  /\ event.gat = "failed" /\ event.err = "invalid URL"
  /\ \E u \in BaseURLs : HasEntry(u)

\* C13: a probe answer whose body was read is healthy exactly when the body
\* parses into the health record with healthy true, or does not parse and
\* holds the word Healthy in this spelling; a body that parses is judged by
\* its member alone.
C13_HealthBodyParsing ==
  trial.fn = "checkJSONResponse" /\ ~trial.res.neterr /\ ~ReadErr(trial.res.body) =>
    LET b == trial.res.body
        has == b.isObject /\ "healthy" \in DOMAIN b.members
        parses == b.isObject /\ (has => b.members.healthy \in {"true", "false", "null"})
        fieldTrue == parses /\ has /\ b.members.healthy = "true"
        mark == \E i \in 1..Len(b.words) : b.words[i] = "Healthy"
    IN trial.healthy <=> (fieldTrue \/ (~parses /\ mark))

\* an object with healthy false and the word Healthy in it: not healthy
C13_Witness ==
  /\ trial.fn = "checkJSONResponse" /\ ~trial.res.neterr /\ ~ReadErr(trial.res.body)
  /\ trial.res.body.isObject
  /\ "healthy" \in DOMAIN trial.res.body.members
  /\ trial.res.body.members.healthy = "false"
  /\ ContainsHealthy(trial.res.body)
  /\ ~trial.healthy

\* C14 as stated: the URL of the first vault that is default and active is
\* returned, and the resolution fails exactly when no vault is both.
C14_FirstDefaultActive ==
  trial.fn = "ResolveVault" =>
    LET l == trial.vaults
        q == {i \in 1..Len(l) : l[i].IsDefault /\ l[i].IsActive}
    IN IF q = {}
         THEN trial.out.err = "no configured vault found"
         ELSE /\ trial.out.err = ""
              /\ \E i \in q : (\A j \in q : i <= j) /\ trial.out.url = l[i].Connection.Url

\* C14 as amended: the first vault that is default and active decides alone;
\* its URL is returned when not empty, and the resolution fails when that URL
\* is empty or no vault is both default and active.
C14_FirstDefaultActiveOrFail ==
  trial.fn = "ResolveVault" =>
    LET l == trial.vaults
        q == {i \in 1..Len(l) : l[i].IsDefault /\ l[i].IsActive}
    IN IF q = {} \/ \E i \in q : (\A j \in q : i <= j) /\ l[i].Connection.Url = <<>>
         THEN trial.out.err = "no configured vault found" /\ trial.out.url = <<>>
         ELSE /\ trial.out.err = ""
              /\ \E i \in q : (\A j \in q : i <= j) /\ trial.out.url = l[i].Connection.Url

\* of two vaults only the second is default and active, and the first is
\* default: the URL of the second is returned
C14_Witness ==
  /\ trial.fn = "ResolveVault"
  /\ Len(trial.vaults) = 2
  /\ trial.vaults[1].IsDefault /\ ~trial.vaults[1].IsActive
  /\ trial.vaults[1].Connection.Url = UrlVaultA
  /\ trial.vaults[2].IsDefault /\ trial.vaults[2].IsActive
  /\ trial.out = [url |-> UrlVaultB, err |-> ""]

\* C15: the step that resolves the vault pins the Server to it, the request
\* that follows a returned token goes to the Server's URL of that moment, and
\* a getAccessToken that fails leaves the Server with the URL it had when the
\* call began (the call's baseURL).
C15_PinnedOrUnchanged ==
  [][\A p \in Procs :
       event'.p = p =>
         /\ event'.vaultURL # <<>> => srv'[p].ServerURL = event'.vaultURL
         /\ event'.gat = "returned" /\ event'.vaultURL # <<>> =>
              pc'[p] = "req" /\ BaseURLOf(srv'[p]) = event'.vaultURL
         /\ event'.gat = "failed" =>
              srv'[p] = srv[p] /\ BaseURLOf(srv[p]) = baseURL[p]]_vars

\* the URLs a vault listing can pin a Server to; no Server is configured
\* with one of them
VaultURLs == {UrlVaultA, UrlVaultB}

\* C16: a Server that an earlier acquisition pinned to a vault sends the grant
\* of a later acquisition as the client-credentials grant to the platform,
\* and lists the vaults of the platform.
C16_RegrantAgainstPlatform ==
  \A p \in Procs :
    srv[p].ServerURL \in VaultURLs =>
      /\ pc[p] \in GrantLabels /\ call[p].vaults = 0 =>
           pc[p] = "grantPlat" /\ baseURL[p] \notin VaultURLs
      /\ pc[p] = "vaults" => baseURL[p] \notin VaultURLs

\* C17: a getAccessToken call sends at most one grant request, and the
\* operation whose request is answered 401 or 403 ends there: the caller is
\* idle again, with no acquisition begun and no request in flight.
C17_NoRetryInCall ==
  /\ \A p \in Procs : call[p].grants <= 1
  /\ event.gat = "returned" => event.call.grants <= 1
  /\ event.resp /\ Unauthorized(event.status) =>
       /\ pc[event.p] = "idle"
       /\ call[event.p] = NoCall
       /\ accessToken[event.p] = <<>>

\* C18: a grant body without access_token is an error: no getAccessToken
\* returns the empty token, and none stores it.
C18_NoEmptyToken ==
  /\ event.gat = "returned" => event.token # <<>>
  /\ event.set => event.token # <<>>
  /\ \A u \in BaseURLs : HasEntry(u) => Entry(u).cache.AccessToken # <<>>

\* C19: the transport sees at most three requests per RoundTrip: the GET
\* without Authorization, then the GET with "NTLM " and the negotiate message
\* in base64, sent only after checkNTLM returned nil, then the request
\* RoundTrip was given with "NTLM " and the authenticate message made of the
\* server's challenge, sent only after doNTLMNegotiate returned the challenge
\* and sent once; what RoundTrip returns after it is the answer to it.
C19_HandshakeOrder ==
  /\ Len(wire) <= 3 /\ Len(answers) <= Len(wire)
  /\ Cardinality({i \in 1..Len(wire) : wire[i].original}) <= 1
  /\ Len(wire) >= 1 =>
       wire[1] = [method |-> "GET", path |-> ntReq.path, auth |-> <<>>, original |-> FALSE]
  /\ Len(wire) >= 2 =>
       /\ checkNTLM(answers[1]) = ""
       /\ wire[2] = [method |-> "GET", path |-> ntReq.path,
                     auth |-> NTLMSpace \o EncodeToString(NegotiateMessage),
                     original |-> FALSE]
       /\ DecodeString(SubSeq(wire[2].auth, 6, Len(wire[2].auth))) =
            [err |-> FALSE, bytes |-> NegotiateMessage]
  /\ Len(wire) = 3 =>
       /\ doNTLMNegotiate(answers[2]).err = ""
       /\ wire[3] = ntReq /\ wire[3].original
       /\ \E c \in Challenges :
            /\ answers[2].vals = <<NTLMSpace \o EncodeToString(c)>>
            /\ HasPrefix(wire[3].auth, NTLMSpace)
            /\ DecodeString(SubSeq(wire[3].auth, 6, Len(wire[3].auth))) =
                 [err |-> FALSE, bytes |-> Update(c)]
  /\ Len(wire) < 3 => \A i \in 1..Len(wire) : ~wire[i].original
  /\ ntRet.kind = "resp" => Len(answers) = 3 /\ ntRet.res = answers[3]
  /\ Len(answers) = 3 =>
       /\ ntPc = "done"
       /\ ~answers[3].neterr => ntRet = ReturnResponse(answers[3])
       /\ answers[3].neterr => ntRet.kind = "err"

\* a POST went through the three legs and its answer, a 401, was returned
C19_Witness ==
  /\ ntPc = "done" /\ Len(wire) = 3
  /\ wire[3].method = "POST"
  /\ ntRet.kind = "resp" /\ ntRet.res.status = 401

\* C20: the probe's answer is accepted exactly when it has status 401 and a
\* Www-Authenticate value "NTLM"; any other answer ends RoundTrip with an
\* error after the probe, with no negotiate request and no original request
\* sent.
C20_ProbeCheck ==
  Len(answers) >= 1 =>
    LET a == answers[1]
        good == /\ ~a.neterr /\ ~a.readErr
                /\ a.status = 401
                /\ a.found /\ \E i \in 1..Len(a.vals) : a.vals[i] = NTLM
    IN /\ good <=> Len(wire) >= 2
       /\ ~good =>
            /\ ntPc = "done" /\ ntRet.kind = "err"
            /\ Len(wire) = 1 /\ ~wire[1].original /\ wire[1].auth = <<>>
            /\ Len(answers) = 1

\* a 401 whose only Www-Authenticate value starts with NTLM but is not NTLM
C20_Witness ==
  /\ Len(answers) = 1
  /\ answers[1].status = 401 /\ answers[1].found /\ ~answers[1].readErr
  /\ Len(answers[1].vals) = 1 /\ HasPrefix(answers[1].vals[1], NTLMSpace)
  /\ ntRet.kind = "err"

\* C21: the original request is sent only when the answer to the negotiate
\* request carries exactly one Www-Authenticate value of six characters or
\* more that starts with "NTLM " and goes on with valid base64; after any
\* other answer RoundTrip has returned an error, two requests have been sent
\* and the original request is not among them.
C21_NegotiateCheck ==
  Len(answers) >= 2 =>
    LET a == answers[2]
        shaped ==
          /\ a.found /\ Len(a.vals) = 1
          /\ Len(a.vals[1]) >= 6
          /\ SubSeq(a.vals[1], 1, 5) = <<"N", "T", "L", "M", " ">>
          /\ ~DecodeString(SubSeq(a.vals[1], 6, Len(a.vals[1]))).err
    IN /\ Len(wire) = 3 => shaped
       /\ ~shaped =>
            /\ ntPc = "done" /\ ntRet.kind = "err" /\ ntRet.err # ""
            /\ Len(wire) = 2 /\ Len(answers) = 2
            /\ \A i \in 1..Len(wire) : ~wire[i].original

\* a 401 with a good challenge and a second Www-Authenticate value
C21_Witness ==
  /\ Len(answers) = 2
  /\ ~answers[2].neterr /\ ~answers[2].readErr /\ answers[2].status = 401
  /\ Len(answers[2].vals) = 2
  /\ ~DecodeString(SubSeq(answers[2].vals[1], 6, Len(answers[2].vals[1]))).err
  /\ ntPc = "done" /\ ntRet.kind = "err"

\* C22: a request whose path is under /api/v1 is sent, on all three legs,
\* with the path /winauthwebservices followed by the path it was given with;
\* a request whose path is not under /api/v1 is sent with the path it was
\* given with.
C22_PathRewrite ==
  [][/\ \A req \in Requests :
          RoundTrip(req, "ok") =>
            LET under == /\ Head(req.path) = ApiPrefix
                         /\ Len(req.path) > 1 => req.path[2] \in {"/secrets", "/"}
            IN ntReq'.path =
                 (IF under THEN <<"/winauthwebservices">> \o req.path ELSE req.path)
     /\ \A i \in 1..Len(wire') : wire'[i].path = ntReq'.path]_vars

\* C23: RoundTrip of the build without the security package returns an
\* UnsupportedCapability error to its caller, sends no request, and leaves
\* the process running.
C23_UnsupportedIsAnError ==
  (ntPc # "idle" /\ sspi.calls = 0) =>
    /\ ntPc = "done"
    /\ ntRet = ReturnErr("UnsupportedCapability")
    /\ wire = <<>>

\* C24: every RoundTrip acquires its own credentials handle and security
\* context; when it has returned, on whatever path, none of the two is open;
\* the negotiate message it sends is the one of its own context and the
\* authenticate message it sends is made of the challenge answered in this
\* call, and nothing sent or answered in the call before is left when a call
\* begins.
C24_SessionPerRequest ==
  [][/\ ntPc' \in {"idle", "done"} =>
          sspi'.cred # "open" /\ sspi'.secctx # "open"
     /\ ntPc' \in {"probe", "nego", "replay"} =>
          sspi'.cred = "open" /\ sspi'.secctx = "open"
     /\ (ntPc \in {"idle", "done"} /\ ntPc' \in {"probe", "done"}) =>
          /\ sspi'.calls = sspi.calls + 1
          /\ answers' = <<>> /\ Len(wire') <= 1
          /\ \A i \in 1..Len(wire') : wire'[i].auth = <<>>
     /\ sspi'.calls = sspi.calls \/ ntPc \in {"idle", "done"}
     /\ Len(wire') >= 2 => wire'[2].auth = NTLMHeader(ntCtx')
     /\ Len(wire') = 3 =>
          wire'[3].auth = NTLMHeader(Update(doNTLMNegotiate(answers'[2]).challenge))]_vars

\* the second call of the process has ended in an error at its negotiate
\* leg, both handles released
C24_Witness ==
  /\ sspi.calls = 2 /\ ntPc = "done"
  /\ ntRet.kind = "err" /\ Len(wire) = 2 /\ Len(answers) = 2
  /\ sspi.cred = "released" /\ sspi.secctx = "released"

\* C25: New returns an error and no Server exactly when ServerURL and Tenant
\* are both empty or both set; with one of the two set it returns a Server
\* whose TLD is "com", whose apiPathURI is "api/v1" and whose tokenPathURI is
\* "oauth2/token" where the Configuration left them empty.
C25_ConfigurationCheck ==
  trial.fn = "New" =>
    LET c == trial.config
        both == c.ServerURL # <<>> /\ c.Tenant # <<>>
        neither == c.ServerURL = <<>> /\ c.Tenant = <<>>
        got == trial.out.server.Configuration
    IN /\ trial.out.kind = "err" <=> (both \/ neither)
       /\ ~(both \/ neither) =>
            /\ trial.out.kind = "server"
            /\ got.ServerURL = c.ServerURL /\ got.Tenant = c.Tenant
            /\ c.TLD = <<>> => got.TLD = <<"c", "o", "m">>
            /\ c.apiPathURI = <<>> => got.apiPathURI = <<"a", "p", "i", "/", "v", "1">>
            /\ c.tokenPathURI = <<>> =>
                 got.tokenPathURI = <<"o", "a", "u", "t", "h", "2", "/", "t", "o", "k", "e", "n">>

\* C26: a request goes to the underlying transport only after Token() has
\* returned a token, at most once, and with the Authorization header
\* "Bearer " followed by that token's access token; when Token() returns an
\* error, RoundTrip returns that error and the request has not gone to the
\* underlying transport.
C26_TokenThenForward ==
  \A g \in Gs :
    /\ pcall[g].sent <= 1
    /\ pcall[g].sent = 1 <=> pcall[g].got.set
    /\ pcall[g].sent = 1 =>
         /\ ppc[g] \in {"forward", "done"}
         /\ pcall[g].auth = <<"B", "e", "a", "r", "e", "r", " ">> \o pcall[g].got.AccessToken
         /\ pcall[g].grants = 1 =>
              /\ Token(pcall[g].answer, 0).err = <<>>
              /\ pcall[g].got.AccessToken =
                   UnmarshalGrant(pcall[g].answer.body).AccessToken
    /\ ppc[g] = "grant" => pcall[g].sent = 0
    /\ (ppc[g] = "done" /\ ~pcall[g].got.set) =>
         /\ pcall[g].sent = 0
         /\ pcall[g].grants = 1
         /\ pret[g].kind = "err" /\ pret[g].from = "token"
         /\ pret[g].err = Token(pcall[g].answer, 0).err /\ pret[g].err # <<>>
    /\ (ppc[g] = "done" /\ pcall[g].got.set) => pret[g].from = "transport"

\* one goroutine's request was forwarded with a granted token and answered,
\* the other's ended with the error of the token endpoint
C26_Witness ==
  /\ ppc["g1"] = "done" /\ pcall["g1"].sent = 1 /\ pcall["g1"].grants = 1
  /\ pret["g1"].kind = "resp"
  /\ ppc["g2"] = "done" /\ pcall["g2"].sent = 0
  /\ pret["g2"].err = <<"error getting token: ", "invalid_grant">>

\* C27 as stated: the goroutines share one slot; a password grant is sent
\* only when the slot holds no token that has an access token and has not
\* expired, a request made while it holds one sends no grant and uses that
\* token, and no two grants are in flight at once.
C27_SingleSlot ==
  [][LET unexpired == slot.set /\ slot.AccessToken # <<>> /\ pclock < slot.Expiry
     IN /\ \A g \in Gs :
             (ppc[g] \in {"idle", "done"} /\ ppc'[g] \notin {"idle", "done"}) =>
               /\ ppc'[g] = "grant" => ~unexpired
               /\ unexpired =>
                    /\ ppc'[g] = "forward"
                    /\ pcall'[g].grants = 0 /\ pcall'[g].got = slot
                    /\ slot' = slot
        /\ Cardinality({g \in Gs : ppc'[g] = "grant"}) <= 1]_vars

\* C27 amended: the same, a token counting as valid when it has an access
\* token and its expiry is ten seconds away or more.
C27_SingleSlotEarlyExpiry ==
  [][LET valid == slot.set /\ slot.AccessToken # <<>> /\ pclock + 10 <= slot.Expiry
     IN /\ \A g \in Gs :
             (ppc[g] \in {"idle", "done"} /\ ppc'[g] \notin {"idle", "done"}) =>
               /\ ppc'[g] = "grant" => ~valid
               /\ valid =>
                    /\ ppc'[g] = "forward"
                    /\ pcall'[g].grants = 0 /\ pcall'[g].got = slot
                    /\ slot' = slot
        /\ Cardinality({g \in Gs : ppc'[g] = "grant"}) <= 1]_vars

\* a second later, one goroutine's request goes out with the token the
\* other's grant put into the slot, while the other sends a grant of its own
\* no more
C27_Witness ==
  /\ pclock = 1
  /\ pcall["g2"].grants = 1 /\ pcall["g2"].got.set /\ pcall["g2"].got = slot
  /\ ppc["g1"] = "forward" /\ pcall["g1"].grants = 0 /\ pcall["g1"].got = slot
  /\ slot.Expiry = 11

C29_ModeDerivedPerCall ==
  [][\A p \in Procs :
       /\ (pc[p] = "idle" /\ pc'[p] # "idle" /\ srv[p].Token = <<>>) =>
            pc'[p] = "probeSS" /\ call'[p] = [NoCall EXCEPT !.probes = 1]
       /\ (pc[p] = "probeSS" /\ pc'[p] # "probeSS") =>
            /\ event'.probe = "ss" /\ event'.p = p
            /\ event'.healthy <=> pc'[p] \in {"req", "clrSS", "grantSS"}
            /\ ~event'.healthy <=> pc'[p] = "probePlat"
       /\ (pc[p] = "probePlat" /\ pc'[p] # "probePlat") =>
            /\ event'.probe = "plat" /\ event'.p = p
            /\ event'.healthy <=> pc'[p] \in {"vaults", "clrPlat", "grantPlat"}
            /\ ~event'.healthy <=> pc'[p] = "idle"
       /\ pc'[p] \in {"grantSS", "clrSS", "grantPlat", "clrPlat", "vaults"} =>
            call'[p].probes \in {1, 2}
       /\ (event'.gat = "returned" /\ event'.p = p /\ srv[p].Token = <<>>) =>
            event'.call.probes \in {1, 2}
       /\ pc'[p] \in {"idle", "req"} => call'[p] = NoCall /\ baseURL'[p] = <<>>]_vars

\* a Server that an earlier call pinned to a vault finds healthcheck.aspx
\* healthy and sends the password grant
C29_Witness ==
  /\ srv["p1"].ServerURL \in {UrlVaultA, UrlVaultB}
  /\ event.probe = "ss" /\ event.healthy /\ event.p = "p1"
  /\ pc["p1"] = "grantSS" /\ call["p1"].probes = 1

\* C30: a token that getAccessToken returns to a Server that has a username
\* and a password, and no static token, was issued in answer to a grant
\* request made with that Server's username; so of two Servers of one base
\* URL with different credentials neither is given the other's token.
C30_CredentialIsolation ==
  (event.gat = "returned" /\ srv[event.p].Token = <<>> /\ event.token # <<>>) =>
    \E n \in 1..Len(owner) :
      IssuedToken(n) = event.token /\ owner[n] = srv[event.p].Username

\* C31: a getAccessToken call that returns an error has written nothing to
\* the token cache: it has neither stored a token nor set a variable to the
\* empty text, and the step in which it fails leaves the cache alone; so a
\* Platform call whose vault listing fails or names no vault stores no token.
C31_FailedCallLeavesCache ==
  [][\A p \in Procs :
       (event'.gat = "failed" /\ event'.p = p /\ pc[p] # "idle") =>
         call[p].writes = 0 /\ env' = env]_vars

\* C32: the cache key of a Server never changes; every lookup, every store
\* and every clear of the Server uses it; and when clearTokenCache has run
\* after a 401 or 403, the token the failing request carried is in the cache
\* under no key.
C32_KeyConsistency ==
  [][\A p \in Procs :
       /\ CacheKey(BaseURLOf(srv'[p])) = CacheKey(BaseURLOf(srv[p]))
       /\ (event'.p = p /\ (event'.get \/ event'.set)) =>
            event'.baseURL = BaseURLOf(srv'[p])
       /\ (event'.p = p /\ event'.resp /\ ClearsOnUnauthorized(event'.op)
              /\ Unauthorized(event'.status)
              /\ ~HasStaticToken(srv[p]) /\ accessToken[p] # <<>>) =>
            \A u \in BaseURLs :
              env'[CacheKey(u)].ok =>
                LET c == UnmarshalTokenCache(env'[CacheKey(u)].val)
                IN c.err \/ c.cache.AccessToken # accessToken[p]]_vars

\* C33: a key is dead when getCacheAccessToken finds nothing under it at the
\* earliest time of the clock, and so, the expiry test being time < ExpiresIn,
\* at no later time either.  The key that clearTokenCache has cleared after a
\* 401 or 403 is dead, whatever it held; a dead key stays dead in every step
\* but a setCacheAccessToken on it; a lookup under a dead key finds nothing;
\* and a lookup under a key whose variable is unset finds nothing.
C33_ClearedUntilSet ==
  [][LET Dead(e, u) == ~getCacheAccessToken(e, 0, u).found
     IN /\ (event'.resp /\ ClearsOnUnauthorized(event'.op)
              /\ Unauthorized(event'.status)) =>
            Dead(env', event'.baseURL)
        /\ env' # env =>
            \A u \in BaseURLs :
              (/\ env'[CacheKey(u)] # env[CacheKey(u)]
               /\ ~(event'.set /\ event'.baseURL = u)
               /\ Dead(env, u)) => Dead(env', u)
        /\ (event'.get /\ ~event'.found) => event'.token = <<>>
        /\ (event'.get /\ event'.found) =>
            /\ env[CacheKey(event'.baseURL)].ok
            /\ ~Dead(env, event'.baseURL)]_vars

\* after a grant was stored under the Server's key and the key was cleared,
\* all within the first second, the Server's lookup under it has found
\* nothing
C33_Witness ==
  /\ srv["p1"] = ConfigServer
  /\ issued >= 1 /\ now = 0
  /\ env[CacheKey(UrlServer)] = [ok |-> TRUE, val |-> <<>>]
  /\ event.p = "p1" /\ event.get /\ ~event.found /\ event.baseURL = UrlServer

\* C34: for a Configuration with exactly one of ServerURL and Tenant set, New
\* returns a Server whatever the TLD, the TLSClientConfig and the client
\* option are, and with TLSClientConfig set the Server's transport carries it.
C34_NewNeverCrashes ==
  (/\ trial.fn = "New"
   /\ (trial.config.ServerURL = <<>>) # (trial.config.Tenant = <<>>)) =>
    /\ trial.out.kind = "server"
    /\ trial.config.TLSClientConfig = "set" =>
         /\ trial.out.server.Transport = "*http.Transport"
         /\ trial.out.server.TLSClientConfig = "set"

\* C35: in the secret that Client.Secret returns, the ItemValue of every
\* field that is a file with an attachment and a file name is the body of the
\* answer to that field's download, and every other field has the ItemValue
\* of the secret response.
C35_AttachmentsSubstituted ==
  (trial.fn = "Secret" /\ ~trial.out.err) =>
    LET sent == trial.res.body.members.Items
        got == trial.out.Fields
    IN /\ Len(got) = Len(sent)
       /\ \A i \in 1..Len(sent) :
            got[i].ItemValue =
              IF IsAttachment(sent[i]) THEN trial.downloads[i].body.text
              ELSE sent[i].ItemValue

====
